---- MODULE Spec2Model ----
(***************************************************************************)
(* proximal.h: ulp-scaled approximate equality for float, double and x86   *)
(* extended long double.                                                   *)
(*                                                                         *)
(* A machine word is modelled as the set of the positions of its set bits  *)
(* (bit 0 = least significant), so 0x7F800000 is 23..30 and the 64-bit     *)
(* words keep their full width.  A float or double object is its 32/64-bit *)
(* word; a long double object is the record [low, high] of struct bits80.  *)
(***************************************************************************)
EXTENDS Integers, FiniteSets, Sequences, TLC

VARIABLES
    pc,            \* "call": a call is about to run; "ret": it returned;
                   \* "spin": it is inside a loop that never exits;
                   \* "abort": it trapped
    op,            \* which function is called
    T,             \* the floating-point type of the arguments
    N,             \* the template parameter of proximal<N> / margin<N>
    a, b,          \* the arguments (objects of type T)
    iexp,          \* the int argument of exp2i<T>
    word,          \* the argument of count_leading_zeros
    specialized,   \* __USE_..._SPECIALIZATION__ of type T is 1
    has_builtin,   \* defined(__has_builtin) && __has_builtin(__builtin_clz)
    clz_undef,     \* what __builtin_clz(0) yields in this build (undefined)
    int_overflow,  \* what signed int overflow does in this build (undefined)
    res            \* the returned value

vars == <<pc, op, T, N, a, b, iexp, word, specialized, has_builtin,
          clz_undef, int_overflow, res>>

----------------------------------------------------------------------------
(* Bounds of the model.                                                    *)

\* proximal<N> and margin<N> are instantiated for N in 0..MaxN and for
\* N = p .. p + MaxOver, p the number of fraction bits of the type
MaxN == 2
MaxOver == 2
\* the values 1 + k * 2^-p are compared for k in 0..MaxSig
MaxSig == 3
\* exp2i is called with the exponents up to MaxStep away from the ends of
\* the subnormal and of the normal range
MaxStep == 2

----------------------------------------------------------------------------
(* Words as bit sets.                                                      *)

Types == {"float", "double", "long double"}

MaxBit(w) == CHOOSE i \in w : \A j \in w : j <= i

\* w << k in a word of `width` bits
Shl(w, k, width) == {i + k : i \in w} \cap (0..(width - 1))

\* w >> k (logical)
Shr(w, k) == {i - k : i \in {j \in w : j >= k}}

Bit(w, i) == IF i \in w THEN 1 ELSE 0

\* the low 17 bits of static_cast<bitsNN>(n) for an int n (all its bits
\* when 0 <= n < 2^17, which every exponent plus bias is)
ToBits(n) == {i \in 0..16 : (n \div (2^i)) % 2 = 1}

\* the unsigned value of a word below 2^16 (every exponent field is)
ToInt(w) ==
    Bit(w, 0) + 2 * Bit(w, 1) + 4 * Bit(w, 2) + 8 * Bit(w, 3)
    + 16 * Bit(w, 4) + 32 * Bit(w, 5) + 64 * Bit(w, 6) + 128 * Bit(w, 7)
    + 256 * Bit(w, 8) + 512 * Bit(w, 9) + 1024 * Bit(w, 10)
    + 2048 * Bit(w, 11) + 4096 * Bit(w, 12) + 8192 * Bit(w, 13)
    + 16384 * Bit(w, 14) + 32768 * Bit(w, 15)

INT_MAX == 2147483647
INT_MIN == -INT_MAX - 1

----------------------------------------------------------------------------
(* std::numeric_limits<T> and the constants derived from it.               *)

digits(t) == CASE t = "float" -> 24 [] t = "double" -> 53
               [] t = "long double" -> 64
min_exponent(t) == CASE t = "float" -> -125 [] t = "double" -> -1021
                     [] t = "long double" -> -16381
max_exponent(t) == CASE t = "float" -> 128 [] t = "double" -> 1024
                     [] t = "long double" -> 16384

fractional_digits(t) == digits(t) - 1
min_explicit_exponent(t) == min_exponent(t) - 1
max_explicit_exponent(t) == max_exponent(t) - 1
min_implicit_exponent(t) == min_explicit_exponent(t) - fractional_digits(t)
fractional_precision(t, n) == fractional_digits(t) - n
exponent_limit(t, n) == min_implicit_exponent(t) + n

----------------------------------------------------------------------------
(* The private constants of the three __representation specializations.    *)

exp_bias(t) == CASE t = "float" -> 127 [] t = "double" -> 1023
                 [] t = "long double" -> 16383
exp_shift(t) == CASE t = "float" -> 23 [] t = "double" -> 52
                  [] t = "long double" -> 0
sig_offset(t) == CASE t = "float" -> 9 [] t = "double" -> 12
                   [] t = "long double" -> 1
\* 0x7F800000, 0x7FF0000000000000, 0x7FFF (of the high word)
exp_mask(t) == CASE t = "float" -> 23..30 [] t = "double" -> 52..62
                 [] t = "long double" -> 0..14
\* 0x007FFFFF, 0x000FFFFFFFFFFFFF, 0xFFFFFFFFFFFFFFFF
sig_mask(t) == CASE t = "float" -> 0..22 [] t = "double" -> 0..51
                 [] t = "long double" -> 0..63
\* 0x00800000, 0x0010000000000000, 0x8000000000000000
sig_integer_bit(t) == CASE t = "float" -> {23} [] t = "double" -> {52}
                        [] t = "long double" -> {63}
\* the width of bits_ (of bits_.low for long double)
word_bits(t) == CASE t = "float" -> 32 [] t = "double" -> 64
                  [] t = "long double" -> 64
\* the sign bit of the object: of bits_, or of bits_.high
sign_bit(t) == CASE t = "float" -> 31 [] t = "double" -> 63
                 [] t = "long double" -> 15

\* bits80(hi, lo)
bits80(hi, lo) == [low |-> lo, high |-> hi]

----------------------------------------------------------------------------
(* count_leading_zeros                                                     *)

\* stands for the count of a loop that never exits (no count is negative)
NoReturn == -1

\* __builtin_clz(w) of a 32-bit word: undefined for 0
builtin_clz(w) == IF w = {} THEN clz_undef ELSE 31 - MaxBit(w)

RECURSIVE clz_loop(_, _)
\* while (1) { if (i < 0) break; n++; i <<= 1; } on a 32-bit int i,
\* given as its two's complement word
clz_loop(i, n) ==
    IF 31 \in i THEN n
    ELSE IF i = {} THEN NoReturn
    ELSE clz_loop(Shl(i, 1, 32), n + 1)

count_leading_zeros32(u) ==
    IF u = {} THEN 32
    ELSE IF has_builtin THEN builtin_clz(u)
    ELSE clz_loop(u, 0)

count_leading_zeros64(u) ==
    IF u = {} THEN 64
    ELSE IF has_builtin
         THEN \* words[0] is the low, words[1] the high half (x86)
              LET words0 == u \cap (0..31)
                  words1 == Shr(u, 32)
              IN IF words1 # {} THEN builtin_clz(words0) + 32
                 ELSE builtin_clz(words1)
         ELSE \* int i = reinterpret_cast<std::int64_t&>(u): the low 32 bits
              clz_loop(u \cap (0..31), 0)

count_leading_zeros(t, u) ==
    IF word_bits(t) = 32 THEN count_leading_zeros32(u)
    ELSE count_leading_zeros64(u)

----------------------------------------------------------------------------
(* __representation<T, S, U>                                               *)

\* data(int exp, S sig) with the bias left out
data_unbiased(t, exp, sig) ==
    IF t = "long double"
    THEN bits80(ToBits(exp) \cap (0..15) \cap exp_mask(t), sig \cap (0..63))
    ELSE (Shl(ToBits(exp), exp_shift(t), word_bits(t)) \cap exp_mask(t))
         \cup (sig \cap sig_mask(t))

\* union data: data(int exp, S sig)
data(t, exp, sig) ==
    IF t = "long double"
    THEN bits80(ToBits(exp + exp_bias(t)) \cap (0..15) \cap exp_mask(t),
                sig \cap (0..63))
    ELSE (Shl(ToBits(exp + exp_bias(t)), exp_shift(t), word_bits(t))
            \cap exp_mask(t))
         \cup (sig \cap sig_mask(t))

\* the word that holds the exponent field / the significand field
exp_word(t, d) == IF t = "long double" THEN d.high ELSE d
sig_word(t, d) == IF t = "long double" THEN d.low ELSE d

exponent(t, d) ==
    ToInt(Shr(exp_word(t, d) \cap exp_mask(t), exp_shift(t))) - exp_bias(t)

significand(t, d) == sig_word(t, d) \cap sig_mask(t)

\* exp2(int exp) with the subnormal shift one short
exp2_short_shift(t, exp) ==
    IF exp < min_explicit_exponent(t)
    THEN LET w == Shr(sig_integer_bit(t), min_explicit_exponent(t) - exp - 1)
         IN IF t = "long double" THEN bits80({}, w) ELSE w
    ELSE IF t = "long double"
         THEN bits80(ToBits(exp + exp_bias(t)) \cap (0..15) \cap exp_mask(t),
                     sig_integer_bit(t))
         ELSE Shl(ToBits(exp + exp_bias(t)), exp_shift(t), word_bits(t))
                \cap exp_mask(t)

\* exp2(int exp): the object left in data_
exp2(t, exp) ==
    IF exp < min_explicit_exponent(t)
    THEN LET w == Shr(sig_integer_bit(t), min_explicit_exponent(t) - exp)
         IN IF t = "long double" THEN bits80({}, w) ELSE w
    ELSE IF t = "long double"
         THEN bits80(ToBits(exp + exp_bias(t)) \cap (0..15) \cap exp_mask(t),
                     sig_integer_bit(t))
         ELSE Shl(ToBits(exp + exp_bias(t)), exp_shift(t), word_bits(t))
                \cap exp_mask(t)

ilogb(t, d) ==
    LET exp == exponent(t, d)
    IN IF exp = -exp_bias(t)
       THEN LET c == count_leading_zeros(t, sig_word(t, d) \cap sig_mask(t))
            IN exp - (c - sig_offset(t))
       ELSE exp

\* ilogb() reaches a count_leading_zeros loop that never exits
ilogb_spins(t, d) ==
    /\ exponent(t, d) = -exp_bias(t)
    /\ count_leading_zeros(t, sig_word(t, d) \cap sig_mask(t)) = NoReturn

----------------------------------------------------------------------------
(* The values of the objects, as the floating-point unit reads them:       *)
(* a finite value is m * 2^q with m the integer whose bits are the set m.  *)

\* the biased exponent field
exp_field(t, d) == ToInt(Shr(exp_word(t, d) \cap exp_mask(t), exp_shift(t)))
exp_field_max(t) == ToInt(Shr(exp_mask(t), exp_shift(t)))
\* the fraction: the significand bits below the integer bit
fraction(t, d) == sig_word(t, d) \cap (0..(fractional_digits(t) - 1))

signbit(t, d) == sign_bit(t) \in exp_word(t, d)

\* "nan", "inf", "zero" or "fin".  x86 extended precision stores the integer
\* bit: a nonzero exponent field with a clear integer bit (unnormal, pseudo
\* infinity, pseudo NaN) is an invalid operand, which compares unordered.
fpclass(t, d) ==
    LET e == exp_field(t, d)
    IN IF t = "long double"
       THEN IF e = 0 THEN (IF d.low = {} THEN "zero" ELSE "fin")
            ELSE IF 63 \notin d.low THEN "nan"
            ELSE IF e = exp_field_max(t)
                 THEN (IF d.low = {63} THEN "inf" ELSE "nan")
            ELSE "fin"
       ELSE IF e = exp_field_max(t)
            THEN (IF fraction(t, d) = {} THEN "inf" ELSE "nan")
            ELSE IF e = 0 /\ fraction(t, d) = {} THEN "zero"
            ELSE "fin"

isinf(t, d) == fpclass(t, d) = "inf"
isnan(t, d) == fpclass(t, d) = "nan"

\* the magnitude [m, q] of a finite object: |d| = m * 2^q
magnitude(t, d) ==
    LET e == exp_field(t, d)
        p == fractional_digits(t)
    IN IF t = "long double"
       THEN [m |-> d.low, q |-> (IF e = 0 THEN 1 ELSE e) - exp_bias(t) - p]
       ELSE IF e = 0 THEN [m |-> fraction(t, d), q |-> 1 - exp_bias(t) - p]
            ELSE [m |-> fraction(t, d) \cup {p}, q |-> e - exp_bias(t) - p]

\* a value: class, sign and magnitude
value(t, d) ==
    LET c == fpclass(t, d)
    IN [cls |-> c, neg |-> signbit(t, d),
        m |-> IF c = "fin" THEN magnitude(t, d).m ELSE {},
        q |-> IF c = "fin" THEN magnitude(t, d).q ELSE 0]

\* floor(log2(m * 2^q)) for m # 0
top(v) == MaxBit(v.m) + v.q

ShiftUp(m, k) == {i + k : i \in m}

\* X < Y as unsigned integers
BitLess(X, Y) == /\ X # Y
                 /\ MaxBit((X \ Y) \cup (Y \ X)) \in Y

\* -1, 0, 1 as the magnitude of v is below, equal to, above that of w
\* (both "fin" or "zero")
mag_cmp(v, w) ==
    IF v.m = {} \/ w.m = {}
    THEN (IF v.m = w.m THEN 0 ELSE IF v.m = {} THEN -1 ELSE 1)
    ELSE IF top(v) # top(w) THEN (IF top(v) < top(w) THEN -1 ELSE 1)
    ELSE LET q0 == IF v.q < w.q THEN v.q ELSE w.q
             X  == ShiftUp(v.m, v.q - q0)
             Y  == ShiftUp(w.m, w.q - q0)
         IN IF X = Y THEN 0 ELSE IF BitLess(X, Y) THEN -1 ELSE 1

\* the order of two values, neither a NaN: -1, 0, 1
val_cmp(v, w) ==
    LET rank(u) == \* infinities beyond every finite magnitude
            IF u.cls = "inf" THEN 1 ELSE 0
        mc == IF rank(v) # rank(w)
              THEN (IF rank(v) < rank(w) THEN -1 ELSE 1)
              ELSE IF v.cls = "inf" THEN 0 ELSE mag_cmp(v, w)
        vz == v.cls # "inf" /\ v.m = {}
        wz == w.cls # "inf" /\ w.m = {}
    IN IF vz /\ wz THEN 0
       ELSE IF vz THEN (IF w.neg THEN 1 ELSE -1)
       ELSE IF wz THEN (IF v.neg THEN -1 ELSE 1)
       ELSE IF v.neg # w.neg THEN (IF v.neg THEN -1 ELSE 1)
       ELSE IF v.neg THEN -mc ELSE mc

\* == as a comparison of the bit patterns
feq_bitwise(v, w) == v = w

\* v == w, v < w, v <= w of the language: false when a NaN is involved
feq(v, w) == v.cls # "nan" /\ w.cls # "nan" /\ val_cmp(v, w) = 0
flt(v, w) == v.cls # "nan" /\ w.cls # "nan" /\ val_cmp(v, w) < 0
fle(v, w) == v.cls # "nan" /\ w.cls # "nan" /\ val_cmp(v, w) <= 0

\* std::abs(x): the sign bit cleared
fabs(t, d) ==
    IF t = "long double" THEN bits80(d.high \ {sign_bit(t)}, d.low)
    ELSE d \ {sign_bit(t)}

\* std::max(x, y): (x < y) ? y : x
fmax(t, x, y) == IF flt(value(t, x), value(t, y)) THEN y ELSE x

----------------------------------------------------------------------------
(* a - b of two finite objects: the exact difference, rounded to nearest,  *)
(* ties to even, in the format of the operands.                            *)

\* the positions where X and Y differ
BitXor(X, Y) == (X \ Y) \cup (Y \ X)

\* the carry into position i of X + Y: generated at some j below i where
\* both have a 1, and propagated by every position between (one 1 each)
Carry(X, Y, i) ==
    \E j \in X \cap Y :
       /\ j < i
       /\ Cardinality({k \in BitXor(X, Y) : j < k /\ k < i}) = i - j - 1

\* X + Y
BitAdd(X, Y) ==
    IF X = {} THEN Y ELSE IF Y = {} THEN X
    ELSE {i \in 0..(MaxBit(X \cup Y) + 1) :
             ((i \in X) # (i \in Y)) # Carry(X, Y, i)}

\* the borrow into position i of X - Y: generated at some j below i where
\* X has 0 and Y has 1, and propagated by every position between where the
\* two agree
Borrow(X, Y, i) ==
    \E j \in Y \ X :
       /\ j < i
       /\ {k \in X \ Y : j < k /\ k < i} = {}

\* X - Y for X >= Y
BitSub(X, Y) ==
    IF Y = {} THEN X
    ELSE {i \in 0..MaxBit(X) : ((i \in X) # (i \in Y)) # Borrow(X, Y, i)}

\* X + 1
BitInc(X) == LET z == CHOOSE i \in 0..(Cardinality(X)) :
                        i \notin X /\ \A j \in 0..(i - 1) : j \in X
             IN (X \ (0..(z - 1))) \cup {z}

\* the value m * 2^q (m # 0) rounded to the format t
round(t, neg, m, q) ==
    LET p    == digits(t)
        qr   == IF q + MaxBit(m) - (p - 1) > min_implicit_exponent(t)
                THEN q + MaxBit(m) - (p - 1)
                ELSE min_implicit_exponent(t)
        k    == qr - q
        kept == Shr(m, k)
        up   == /\ (k - 1) \in m
                /\ (m \cap (0..(k - 2)) # {} \/ k \in m)
        mr   == IF k <= 0 THEN m ELSE IF up THEN BitInc(kept) ELSE kept
        qq   == IF k <= 0 THEN q ELSE qr
    IN IF mr = {} THEN [cls |-> "zero", neg |-> neg, m |-> {}, q |-> 0]
       ELSE IF MaxBit(mr) + qq > max_explicit_exponent(t)
            THEN [cls |-> "inf", neg |-> neg, m |-> {}, q |-> 0]
       ELSE [cls |-> "fin", neg |-> neg, m |-> mr, q |-> qq]

\* the exact sum of the magnitudes of v and w, or their exact difference
\* with its sign, as [neg, m, q]; v, w finite and nonzero with exponents at
\* most digits + 2 apart
exact(v, wneg, w) ==
    LET q0 == IF v.q < w.q THEN v.q ELSE w.q
        X  == ShiftUp(v.m, v.q - q0)
        Y  == ShiftUp(w.m, w.q - q0)
    IN IF v.neg = wneg THEN [neg |-> v.neg, m |-> BitAdd(X, Y), q |-> q0]
       ELSE IF X = Y THEN [neg |-> FALSE, m |-> {}, q |-> q0]
       ELSE IF BitLess(X, Y) THEN [neg |-> wneg, m |-> BitSub(Y, X), q |-> q0]
       ELSE [neg |-> v.neg, m |-> BitSub(X, Y), q |-> q0]

\* x - y for finite x, y
fsub(t, x, y) ==
    LET v == value(t, x)
        w == value(t, y)
        wneg == ~w.neg
    IN IF w.m = {} THEN (IF v.m = {}
                         THEN [v EXCEPT !.neg = v.neg /\ wneg]
                         ELSE v)
       ELSE IF v.m = {} THEN [w EXCEPT !.neg = wneg]
       ELSE IF top(v) - top(w) > digits(t) + 2 THEN v
       ELSE IF top(w) - top(v) > digits(t) + 2 THEN [w EXCEPT !.neg = wneg]
       ELSE LET e == exact(v, wneg, w)
            IN IF e.m = {} THEN [cls |-> "zero", neg |-> FALSE, m |-> {}, q |-> 0]
               ELSE round(t, e.neg, e.m, e.q)

\* std::abs of a value
vabs(v) == [v EXCEPT !.neg = FALSE]

----------------------------------------------------------------------------
(* exp2i and ilog2: the generic templates and their specializations.       *)

\* the objects +0.0 and +infinity, and 2^exp for an exponent in range
zero_object(t) == IF t = "long double" THEN bits80({}, {}) ELSE {}
inf_object(t) ==
    IF t = "long double" THEN bits80(exp_mask(t), sig_integer_bit(t))
    ELSE exp_mask(t)
pow2_object(t, exp) ==
    IF exp < min_explicit_exponent(t)
    THEN LET w == {fractional_digits(t) - 1 - (min_explicit_exponent(t) - 1 - exp)}
         IN IF t = "long double" THEN bits80({}, w) ELSE w
    ELSE IF t = "long double"
         THEN bits80(ToBits(exp + exp_bias(t)), {63})
         ELSE ShiftUp(ToBits(exp + exp_bias(t)), exp_shift(t))

\* std::exp2(static_cast<T>(exp)): exactly 2^exp, +infinity above the
\* range of T, +0 below half the smallest subnormal
std_exp2(t, exp) ==
    IF exp > max_explicit_exponent(t) THEN inf_object(t)
    ELSE IF exp < min_implicit_exponent(t) THEN zero_object(t)
    ELSE pow2_object(t, exp)

\* std::ilogb(x): FP_ILOGB0 and FP_ILOGBNAN are INT_MIN (glibc, x86)
std_ilogb(t, x) ==
    LET v == value(t, x)
    IN CASE v.cls = "zero" -> INT_MIN
         [] v.cls = "nan"  -> INT_MIN
         [] v.cls = "inf"  -> INT_MAX
         [] v.cls = "fin"  -> top(v)

\* exp2i<T>(exp); S: the specialization of T is selected
exp2i(S, t, exp) == IF S THEN exp2(t, exp) ELSE std_exp2(t, exp)

\* ilog2<T>(x)
ilog2(S, t, x) == IF S THEN ilogb(t, x) ELSE std_ilogb(t, x)

ilog2_spins(S, t, x) == S /\ ilogb_spins(t, x)

\* x - y on int overflows (undefined behaviour)
int_sub_overflows(x, y) == \/ y > 0 /\ x < INT_MIN + y
                           \/ y < 0 /\ x > INT_MAX + y

\* x - y on int; two's complement wrap-around where it overflows
int_sub(x, y) ==
    IF y > 0 /\ x < INT_MIN + y THEN INT_MAX - ((y - (x - INT_MIN)) - 1)
    ELSE IF y < 0 /\ x > INT_MAX + y THEN INT_MIN + (((-y) - (INT_MAX - x)) - 1)
    ELSE x - y

\* std::max on int
int_max(x, y) == IF x < y THEN y ELSE x

----------------------------------------------------------------------------
(* The free functions ulp(x) and margin<N>(x).                             *)

ulp(S, t, x) ==
    IF isinf(t, x) \/ isnan(t, x) THEN zero_object(t)
    ELSE exp2i(S, t, int_max(int_sub(ilog2(S, t, x), fractional_precision(t, 0)),
                             exponent_limit(t, 0)))

margin(S, t, n, x) ==
    IF isinf(t, x) \/ isnan(t, x) THEN zero_object(t)
    ELSE exp2i(S, t, int_max(int_sub(ilog2(S, t, x), fractional_precision(t, n)),
                             exponent_limit(t, n)))

\* how a call of ulp(x) / margin<n>(x) ends: "ret", "spin" or "abort"
margin_ends(S, t, n, x) ==
    IF isinf(t, x) \/ isnan(t, x) THEN "ret"
    ELSE IF ilog2_spins(S, t, x) THEN "spin"
    ELSE IF /\ int_sub_overflows(ilog2(S, t, x), fractional_precision(t, n))
            /\ int_overflow = "trap" THEN "abort"
    ELSE "ret"

----------------------------------------------------------------------------
(* template<int N> class proximal                                          *)

\* _ulp(x): exp_ulp_x is held in a T, which is exact for these integers
priv_ulp(S, t, x) ==
    LET exp_ulp_x == int_sub(ilog2(S, t, x), fractional_precision(t, 0))
    IN exp2i(S, t, IF exp_ulp_x > exponent_limit(t, 0) THEN exp_ulp_x
                   ELSE exponent_limit(t, 0))

\* _margin(x)
priv_margin(S, t, n, x) ==
    LET margin_exp == int_sub(ilog2(S, t, x), fractional_precision(t, n))
    IN exp2i(S, t, IF margin_exp > exponent_limit(t, n) THEN margin_exp
                   ELSE exponent_limit(t, n))

\* _within_margin with an exclusive bound
within_margin_exclusive(S, t, n, x, y) ==
    IF feq(value(t, x), value(t, y)) THEN TRUE
    ELSE IF isinf(t, x) \/ isinf(t, y) \/ isnan(t, x) \/ isnan(t, y) THEN FALSE
    ELSE flt(vabs(fsub(t, x, y)),
             value(t, priv_margin(S, t, n, fmax(t, fabs(t, x), fabs(t, y)))))

\* _within_margin with the infinity and NaN test ahead of the equality test
within_margin_swapped(S, t, n, x, y) ==
    IF isinf(t, x) \/ isinf(t, y) \/ isnan(t, x) \/ isnan(t, y) THEN FALSE
    ELSE IF feq(value(t, x), value(t, y)) THEN TRUE
    ELSE fle(vabs(fsub(t, x, y)),
             value(t, priv_margin(S, t, n, fmax(t, fabs(t, x), fabs(t, y)))))

\* _within_margin as the bare formula |a - b| < margin, no equality test
within_margin_bare(S, t, n, x, y) ==
    IF isinf(t, x) \/ isinf(t, y) \/ isnan(t, x) \/ isnan(t, y) THEN FALSE
    ELSE flt(vabs(fsub(t, x, y)),
             value(t, priv_margin(S, t, n, fmax(t, fabs(t, x), fabs(t, y)))))

\* _within_margin rejecting operands of opposite sign up front
within_margin_signs(S, t, n, x, y) ==
    IF signbit(t, x) # signbit(t, y) THEN FALSE
    ELSE IF feq(value(t, x), value(t, y)) THEN TRUE
    ELSE IF isinf(t, x) \/ isinf(t, y) \/ isnan(t, x) \/ isnan(t, y) THEN FALSE
    ELSE fle(vabs(fsub(t, x, y)),
             value(t, priv_margin(S, t, n, fmax(t, fabs(t, x), fabs(t, y)))))

\* _within_margin(a, b)
within_margin(S, t, n, x, y) ==
    IF feq(value(t, x), value(t, y)) THEN TRUE
    ELSE IF isinf(t, x) \/ isinf(t, y) \/ isnan(t, x) \/ isnan(t, y) THEN FALSE
    ELSE fle(vabs(fsub(t, x, y)),
             value(t, priv_margin(S, t, n, fmax(t, fabs(t, x), fabs(t, y)))))

within_margin_ends(S, t, n, x, y) ==
    IF feq(value(t, x), value(t, y)) THEN "ret"
    ELSE IF isinf(t, x) \/ isinf(t, y) \/ isnan(t, x) \/ isnan(t, y) THEN "ret"
    ELSE IF ilog2_spins(S, t, fmax(t, fabs(t, x), fabs(t, y))) THEN "spin"
    ELSE "ret"

\* the value 0.0 of the comparison x == 0.0
is_zero(t, x) == fpclass(t, x) = "zero"

\* proximal<N>::ulp(x)
proximal_ulp(S, t, x) ==
    IF isinf(t, x) \/ isnan(t, x) THEN zero_object(t)
    ELSE IF is_zero(t, x) THEN exp2i(S, t, exponent_limit(t, 0))
    ELSE priv_ulp(S, t, x)

\* proximal<N>::margin(x)
proximal_margin(S, t, n, x) ==
    IF isinf(t, x) \/ isnan(t, x) THEN zero_object(t)
    ELSE IF is_zero(t, x) THEN exp2i(S, t, exponent_limit(t, n))
    ELSE priv_margin(S, t, n, x)

proximal_margin_ends(S, t, n, x) ==
    IF isinf(t, x) \/ isnan(t, x) \/ is_zero(t, x) THEN "ret"
    ELSE IF ilog2_spins(S, t, x) THEN "spin"
    ELSE "ret"

\* proximal<N>::operator()(a, b)
proximal(S, t, n, x, y) == within_margin(S, t, n, x, y)

\* representation<T>(r.exponent(), r.significand()) for r = representation<T>(x)
reconstruct(t, x) == data(t, exponent(t, x), significand(t, x))

----------------------------------------------------------------------------
(* The arguments of the calls.                                             *)

\* the object with the given sign, exponent field and significand word
object(t, neg, e, sig) ==
    IF t = "long double"
    THEN bits80(ToBits(e) \cup (IF neg THEN {sign_bit(t)} ELSE {}), sig)
    ELSE ShiftUp(ToBits(e), exp_shift(t)) \cup sig
           \cup (IF neg THEN {sign_bit(t)} ELSE {})

\* the integer bit as stored: explicit in the extended format only
stored_integer_bit(t) == IF t = "long double" THEN {63} ELSE {}

\* the normal value (1 + k * 2^-p) * 2^exp: significand field larger by k
normal(t, neg, exp, k) ==
    object(t, neg, exp + exp_bias(t), stored_integer_bit(t) \cup ToBits(k))

\* the subnormal with the significand word sig
subnormal(t, neg, sig) == object(t, neg, 0, sig)

\* subnormal significands whose leading zeros count_leading_zeros gets wrong
SubnormalSigs(t) ==
    CASE t = "float" -> {{0}, {22}}
      [] t = "double" -> {{0}, {31}, {32}}
      [] t = "long double" -> {{0}, {32}, {62}}

\* the binades the tests compare in, next to that of 1.0
Binades(t) ==
    IF t = "long double" THEN {max_explicit_exponent(t), -16322}
    ELSE {max_explicit_exponent(t)}

Inputs(t) ==
    {subnormal(t, neg, {}) : neg \in BOOLEAN}
    \cup {subnormal(t, FALSE, sig) : sig \in SubnormalSigs(t)}
    \cup {subnormal(t, TRUE, {0})}
    \cup {normal(t, FALSE, 0, k) : k \in 0..MaxSig}
    \cup {normal(t, TRUE, 0, 0)}
    \cup {normal(t, FALSE, e, k) : e \in Binades(t), k \in {0, 2}}
    \cup {object(t, FALSE, exp_field_max(t) - 1,
                 stored_integer_bit(t) \cup {fractional_digits(t) - 1})}
    \cup {object(t, neg, exp_field_max(t), stored_integer_bit(t)) :
             neg \in BOOLEAN}
    \cup {object(t, FALSE, exp_field_max(t),
                 stored_integer_bit(t) \cup {fractional_digits(t) - 1})}

\* the operands of the extended-precision subnormal test
TestOperands(t) ==
    IF t = "long double" THEN {data(t, -16382, {}), data(t, -16382, {0})}
    ELSE {}

\* the exponents exp2i<T> is called with: the ends of the subnormal and of
\* the normal range, 0, and the exponents just above the range
ExpSet(t) ==
    {0}
    \cup {min_implicit_exponent(t) + d : d \in 0..MaxStep}
    \cup {min_explicit_exponent(t) - 1 - d : d \in 0..MaxStep}
    \cup {min_explicit_exponent(t) + d : d \in 0..MaxStep}
    \cup {max_explicit_exponent(t) - d : d \in 0..MaxStep}
    \cup {max_explicit_exponent(t) + d : d \in 1..MaxStep}

\* the words count_leading_zeros is called with: 0, every single bit, and
\* every bit together with bit 0
Words(t) ==
    {{}} \cup {{i} : i \in 0..(word_bits(t) - 1)}
         \cup {{i, 0} : i \in 0..(word_bits(t) - 1)}

\* the values of the template parameter N
NSet(t) == (0..MaxN) \cup {fractional_digits(t) + d : d \in 0..MaxOver}

\* what __builtin_clz(0) may yield
ClzUndef == {0, 31, 32, 63}

\* the builds of type t for a call of o: the specialization with either
\* count_leading_zeros, or the generic templates.  Only the 64-bit
\* count_leading_zeros reaches __builtin_clz(0), only the generic ulp and
\* margin reach an int overflow, and class representation<T> exists in the
\* specialized builds only and counts no leading zeros when reconstructing.
\* exp2i counts no leading zeros either, and count_leading_zeros is
\* declared in the specialized builds only.
Builds(t, o) ==
    {[spec |-> TRUE, builtin |-> TRUE, clz |-> c, ovf |-> "wrap"] :
        c \in IF t = "float" \/ o \in {"reconstruct", "exp2i"} THEN {32}
              ELSE ClzUndef}
    \cup {[spec |-> TRUE, builtin |-> FALSE, clz |-> 32, ovf |-> "wrap"] :
             x \in IF o \in {"reconstruct", "exp2i"} THEN {} ELSE {0}}
    \cup {[spec |-> FALSE, builtin |-> TRUE, clz |-> 32, ovf |-> v] :
             v \in CASE o \in {"ulp", "margin"} -> {"wrap", "trap"}
                     [] o \in {"reconstruct", "count_leading_zeros"} -> {}
                     [] OTHER -> {"wrap"}}

Ops == {"proximal", "proximal_ulp", "proximal_margin", "ulp", "margin",
        "reconstruct", "exp2i", "ilog2", "count_leading_zeros"}

----------------------------------------------------------------------------
(* The calls.                                                              *)

Init ==
    /\ pc = "call"
    /\ op \in Ops
    \* float stands for the 32-bit and double for the 64-bit overload of
    \* count_leading_zeros
    /\ T \in IF op = "count_leading_zeros" THEN {"float", "double"} ELSE Types
    /\ N \in IF op \in {"proximal", "proximal_margin", "margin"}
             THEN NSet(T) ELSE {0}
    /\ a \in CASE op = "proximal" -> Inputs(T) \cup TestOperands(T)
               [] op \in {"exp2i", "count_leading_zeros"} -> {zero_object(T)}
               [] OTHER -> Inputs(T)
    /\ b \in IF op = "proximal" THEN Inputs(T) \cup TestOperands(T) ELSE {a}
    /\ iexp \in IF op = "exp2i" THEN ExpSet(T) ELSE {0}
    /\ word \in IF op = "count_leading_zeros" THEN Words(T) ELSE {{}}
    /\ \E bld \in Builds(T, op) :
          /\ specialized = bld.spec
          /\ has_builtin = bld.builtin
          /\ clz_undef = bld.clz
          /\ int_overflow = bld.ovf
    /\ res = "none"

inputs == <<op, T, N, a, b, iexp, word, specialized, has_builtin, clz_undef,
            int_overflow>>

\* the call ends as `ends`, returning val if it returns
Finish(ends, val) ==
    /\ pc' = ends
    /\ res' = IF ends = "ret" THEN val ELSE "none"
    /\ UNCHANGED inputs

CallProximal ==
    /\ pc = "call" /\ op = "proximal"
    /\ Finish(within_margin_ends(specialized, T, N, a, b),
              proximal(specialized, T, N, a, b))

CallProximalUlp ==
    /\ pc = "call" /\ op = "proximal_ulp"
    /\ Finish(proximal_margin_ends(specialized, T, 0, a),
              proximal_ulp(specialized, T, a))

CallProximalMargin ==
    /\ pc = "call" /\ op = "proximal_margin"
    /\ Finish(proximal_margin_ends(specialized, T, N, a),
              proximal_margin(specialized, T, N, a))

CallUlp ==
    /\ pc = "call" /\ op = "ulp"
    /\ Finish(margin_ends(specialized, T, 0, a), ulp(specialized, T, a))

CallMargin ==
    /\ pc = "call" /\ op = "margin"
    /\ Finish(margin_ends(specialized, T, N, a), margin(specialized, T, N, a))

CallReconstruct ==
    /\ pc = "call" /\ op = "reconstruct"
    /\ Finish("ret", reconstruct(T, a))

CallExp2i ==
    /\ pc = "call" /\ op = "exp2i"
    /\ Finish("ret", exp2i(specialized, T, iexp))

CallIlog2 ==
    /\ pc = "call" /\ op = "ilog2"
    /\ Finish(IF ilog2_spins(specialized, T, a) THEN "spin" ELSE "ret",
              ilog2(specialized, T, a))

CallCountLeadingZeros ==
    /\ pc = "call" /\ op = "count_leading_zeros"
    /\ Finish(IF count_leading_zeros(T, word) = NoReturn THEN "spin" ELSE "ret",
              count_leading_zeros(T, word))

Next ==
    \/ CallProximal
    \/ CallProximalUlp
    \/ CallProximalMargin
    \/ CallUlp
    \/ CallMargin
    \/ CallReconstruct
    \/ CallExp2i
    \/ CallIlog2
    \/ CallCountLeadingZeros

Spec == Init /\ [][Next]_vars

TypeOK ==
    /\ pc \in {"call", "ret", "spin", "abort"}
    /\ op \in Ops
    /\ T \in Types
    /\ N \in NSet(T)

----------------------------------------------------------------------------
(* Properties.                                                             *)

finite(t, x) == fpclass(t, x) \in {"zero", "fin"}

\* a call of proximal<N>::operator() has ended
ProximalEnded == pc # "call" /\ op = "proximal"

\* the exact |x - y| <= V, for finite x, y of different value and a value V
exact_within(t, x, y, V) ==
    LET v == value(t, x)
        w == value(t, y)
        \* the larger magnitude decides when the smaller is below a
        \* quarter of its last place
        far(big) == LET c == mag_cmp(big, V)
                    IN IF c = 0 THEN v.neg = w.neg ELSE c < 0
    IN IF V.cls = "nan" THEN FALSE
       ELSE IF V.cls = "inf" THEN TRUE
       ELSE IF v.m = {} THEN mag_cmp(w, V) <= 0
       ELSE IF w.m = {} THEN mag_cmp(v, V) <= 0
       ELSE IF top(v) - top(w) > digits(t) + 2 THEN far(v)
       ELSE IF top(w) - top(v) > digits(t) + 2 THEN far(w)
       ELSE mag_cmp(exact(v, ~w.neg, w), V) <= 0

\* C1's case: finite operands of different value
C1_Case ==
    /\ ProximalEnded
    /\ finite(T, a) /\ finite(T, b)
    /\ ~feq(value(T, a), value(T, b))

C1_Larger == fmax(T, fabs(T, a), fabs(T, b))
C1_MarginReturns == margin_ends(specialized, T, N, C1_Larger) = "ret"
C1_Margin == value(T, margin(specialized, T, N, C1_Larger))

C2_NaNIsNeverProximal ==
    (ProximalEnded /\ (isnan(T, a) \/ isnan(T, b)))
        => (pc = "ret" /\ res = FALSE)

C2_Witness ==
    /\ ProximalEnded /\ isnan(T, a) /\ a = b
    /\ pc = "ret" /\ res = FALSE

\* C3: with an infinite operand (and no NaN) proximal<N> returns true exactly
\* when both operands are infinities of the same sign, in either order.
C3_Infinities ==
    (ProximalEnded /\ (isinf(T, a) \/ isinf(T, b))
       /\ ~isnan(T, a) /\ ~isnan(T, b))
        => /\ pc = "ret"
           /\ res = (isinf(T, a) /\ isinf(T, b)
                       /\ signbit(T, a) = signbit(T, b))

C3_Witness ==
    /\ ProximalEnded /\ isinf(T, a) /\ isinf(T, b)
    /\ signbit(T, a) /\ signbit(T, b)
    /\ pc = "ret" /\ res = TRUE

\* C4: reflexivity: proximal<N>(x, x) returns true for every finite x.
C4_Reflexive ==
    (ProximalEnded /\ a = b /\ finite(T, a)) => (pc = "ret" /\ res = TRUE)

\* a reflexive call on a subnormal
C4_Witness ==
    /\ ProximalEnded /\ a = b
    /\ fpclass(T, a) = "fin" /\ exp_field(T, a) = 0
    /\ N > 0
    /\ pc = "ret" /\ res = TRUE

\* C5: proximal<N>(+0.0, -0.0) and proximal<N>(-0.0, +0.0) return true.
C5_SignedZeros ==
    (ProximalEnded /\ is_zero(T, a) /\ is_zero(T, b)
       /\ signbit(T, a) # signbit(T, b))
        => (pc = "ret" /\ res = TRUE)

C5_Witness ==
    /\ ProximalEnded /\ is_zero(T, a) /\ is_zero(T, b)
    /\ signbit(T, a) /\ ~signbit(T, b)
    /\ pc = "ret" /\ res = TRUE

\* C6: monotonicity: when proximal<N>(a, b) returns true, so does
\* proximal<N+1>(a, b).
C6_Monotone ==
    (ProximalEnded /\ pc = "ret" /\ res = TRUE)
        => /\ within_margin_ends(specialized, T, N + 1, a, b) = "ret"
           /\ proximal(specialized, T, N + 1, a, b)

\* a is a positive normal value and b has its exponent and a significand
\* field larger by k
C7_Step(k) ==
    /\ fpclass(T, a) = "fin" /\ exp_field(T, a) # 0 /\ ~signbit(T, a)
    /\ fpclass(T, b) = "fin" /\ ~signbit(T, b)
    /\ exp_field(T, b) = exp_field(T, a)
    /\ fraction(T, a) \subseteq 0..15 /\ fraction(T, b) \subseteq 0..15
    /\ ToInt(fraction(T, b)) - ToInt(fraction(T, a)) = k

\* C7: boundary precision: for a normal a and b in its binade with a
\* significand field larger by k >= 1, proximal<N>(a, b) returns true
\* exactly when k <= 2^N.
C7_Boundary ==
    \A k \in 1..(MaxSig + 1) :
        (ProximalEnded /\ C7_Step(k))
            => (pc = "ret" /\ res = (N >= 16 \/ k <= 2^N))

\* C8 as stated: for every finite x, the representation built from the
\* exponent() and significand() of x has the bit pattern of x.
C8_RoundTrip ==
    (pc = "ret" /\ op = "reconstruct" /\ finite(T, a)) => res = a

\* C8 amended: for every finite x, the representation built from the
\* exponent() and significand() of x has the bit pattern of x with the sign
\* bit cleared: that of x itself when x is not negative.
C8_RoundTripUnsigned ==
    (pc = "ret" /\ op = "reconstruct" /\ finite(T, a)) => res = fabs(T, a)

\* a negative subnormal reconstructed as its absolute value
C8_Witness ==
    /\ pc = "ret" /\ op = "reconstruct"
    /\ fpclass(T, a) = "fin" /\ exp_field(T, a) = 0 /\ signbit(T, a)
    /\ res = fabs(T, a) /\ res # a

\* the same value: both NaN, or equal with the same sign
same_value(t, x, y) ==
    LET v == value(t, x)
        w == value(t, y)
    IN \/ v.cls = "nan" /\ w.cls = "nan"
       \/ feq(v, w) /\ v.neg = w.neg

\* how the call of the state ends, and what it returns, when the templates
\* of kind S (specialized or generic) are selected
ends_with(S) ==
    CASE op = "proximal" -> within_margin_ends(S, T, N, a, b)
      [] op = "proximal_ulp" -> proximal_margin_ends(S, T, 0, a)
      [] op = "proximal_margin" -> proximal_margin_ends(S, T, N, a)
      [] op = "ulp" -> margin_ends(S, T, 0, a)
      [] op = "margin" -> margin_ends(S, T, N, a)
returns_with(S) ==
    CASE op = "proximal_ulp" -> proximal_ulp(S, T, a)
      [] op = "proximal_margin" -> proximal_margin(S, T, N, a)
      [] op = "ulp" -> ulp(S, T, a)
      [] op = "margin" -> margin(S, T, N, a)

\* C9: ulp, margin<N>, proximal<N>::ulp, proximal<N>::margin and
\* proximal<N> give the same result whether the specialization or the
\* generic template is selected.
C9_SameOnBothPaths ==
    (pc # "call" /\ op \in {"proximal", "proximal_ulp", "proximal_margin",
                            "ulp", "margin"})
        => /\ pc = ends_with(~specialized)
           /\ pc = "ret" =>
                IF op = "proximal"
                THEN res = proximal(~specialized, T, N, a, b)
                ELSE same_value(T, res, returns_with(~specialized))

\* 2^max(floor(log2 |x|) - p, emin - p) for a finite x # 0
ulp_formula(t, x) ==
    LET e == top(value(t, x)) - fractional_digits(t)
    IN pow2_object(t, IF e > min_implicit_exponent(t) THEN e
                      ELSE min_implicit_exponent(t))

\* C10: ulp(x) and proximal<N>::ulp(x) return 0 for an infinite or NaN x,
\* the smallest subnormal 2^(emin - p) for a zero, and
\* 2^max(ilogb(x) - p, emin - p) for every other x.
C10_Ulp ==
    (pc # "call" /\ op \in {"ulp", "proximal_ulp"})
        => /\ pc = "ret"
           /\ res = CASE isinf(T, a) \/ isnan(T, a) -> zero_object(T)
                      [] is_zero(T, a) -> pow2_object(T, min_implicit_exponent(T))
                      [] OTHER -> ulp_formula(T, a)

\* 2^n times the value of the object x, in the arithmetic of type t
times_pow2(t, x, n) ==
    LET v == value(t, x)
    IN IF v.cls # "fin" THEN x
       ELSE IF top(v) + n > max_explicit_exponent(t) THEN inf_object(t)
       ELSE pow2_object(t, top(v) + n)

\* a call of margin<N> or proximal<N>::margin on a finite x has ended
C11_Case ==
    /\ pc # "call" /\ op \in {"margin", "proximal_margin"}
    /\ finite(T, a)

\* how ulp of the same kind ends on the argument, and what it returns
C11_UlpEnds ==
    IF op = "margin" THEN margin_ends(specialized, T, 0, a)
    ELSE proximal_margin_ends(specialized, T, 0, a)
C11_Ulp ==
    IF op = "margin" THEN ulp(specialized, T, a)
    ELSE proximal_ulp(specialized, T, a)

\* C11: for every finite x and every N >= 0, margin<N>(x) and
\* proximal<N>::margin(x) equal 2^N times ulp(x), and margin<0>(x) is ulp(x).
C11_MarginIsScaledUlp ==
    C11_Case =>
        /\ pc = C11_UlpEnds
        /\ pc = "ret" => res = times_pow2(T, C11_Ulp, N)

\* C12: the extended-precision subnormal test: proximal<0>(a, b) returns
\* true for a = representation<long double>(-16382, 0).value() and
\* b = representation<long double>(-16382, 1).value().
C12_SubnormalTest ==
    (/\ ProximalEnded /\ T = "long double" /\ N = 0
     /\ a = data(T, -16382, {}) /\ b = data(T, -16382, {0}))
        => (pc = "ret" /\ res = TRUE)

\* a call of the specialized exp2i<T> with an exponent from the smallest
\* subnormal to the largest normal one has returned
C13_Case ==
    /\ pc = "ret" /\ op = "exp2i" /\ specialized
    /\ iexp >= min_implicit_exponent(T) /\ iexp <= max_explicit_exponent(T)

\* the pattern C13 describes for 2^exp
C13_Pattern ==
    IF iexp < min_explicit_exponent(T)
    THEN /\ exp_field(T, res) = 0
         /\ sig_word(T, res)
              = Shr(sig_integer_bit(T), min_explicit_exponent(T) - iexp)
    ELSE /\ exp_field(T, res) = iexp + exp_bias(T)
         /\ fraction(T, res) = {}
         /\ T = "long double" => 63 \in res.low

\* C13: for every exp from emin - p to the largest normal exponent the
\* specialized exp2i(exp) returns exactly 2^exp: below emin a subnormal
\* pattern with the leading bit shifted right by emin - exp, otherwise the
\* exponent field exp + bias with a zero fraction.
C13_Exp2iExact ==
    C13_Case =>
        LET v == value(T, res)
        IN /\ v.cls = "fin" /\ ~v.neg
           /\ Cardinality(v.m) = 1 /\ top(v) = iexp
           /\ C13_Pattern

\* the smallest subnormal, 2^(emin - p), returned with only bit 0 set
C13_Witness ==
    /\ C13_Case /\ iexp = min_implicit_exponent(T)
    /\ sig_word(T, res) = {0} /\ exp_field(T, res) = 0

\* C14: for every finite nonzero x the specialized ilogb(x) returns
\* floor(log2 |x|), the exponent of the highest set bit of the significand
\* when x is subnormal.
C14_Ilogb ==
    (pc # "call" /\ op = "ilog2" /\ specialized /\ fpclass(T, a) = "fin")
        => (pc = "ret" /\ res = top(value(T, a)))

\* C15: count_leading_zeros(u) returns the number of zero bits above the
\* most significant set bit of a nonzero u and the bit width for u = 0, for
\* both overloads.
C15_CountLeadingZeros ==
    (pc # "call" /\ op = "count_leading_zeros")
        => /\ pc = "ret"
           /\ res = IF word = {} THEN word_bits(T)
                     ELSE word_bits(T) - 1 - MaxBit(word)

\* C16: every call terminates: no call stays inside the loop of
\* count_leading_zeros.
C16_Terminates == pc # "spin"

====
